---- MODULE Spec2Model ----
(***************************************************************************)
(* A model of scripts/remove-debug-logs.py: the line-oriented transform    *)
(* remove_debug_logs (the main loop, the direct rule and the chain         *)
(* lookahead, one step per loop iteration), and the batch driver           *)
(* process_file / main around it.                                          *)
(*                                                                         *)
(* A line is a sequence of one-character strings, so that the substring,   *)
(* prefix, suffix and strip tests of the code are computed on the text.    *)
(* Indices are 0-based as in the code: lines[i] of the code is Line(i).    *)
(***************************************************************************)
EXTENDS Integers, Sequences, FiniteSets, TLC

\* ------------------------------------------------------------------ bounds

\* The longest input (in lines) that Init enumerates over Vocab.
MaxLen == 4

\* The most files the batch driver is given.
MaxFiles == 2

\* ------------------------------------------------------- string operations

\* str.strip() / str.rstrip() with no argument remove whitespace (of which
\* the inputs below use the space).
Whitespace == {" ", "\t", "\n", "\r", "\f"}

RECURSIVE lstrip(_)
lstrip(s) ==
    IF s # <<>> /\ Head(s) \in Whitespace THEN lstrip(Tail(s)) ELSE s

RECURSIVE rstrip(_)
rstrip(s) ==
    IF s # <<>> /\ s[Len(s)] \in Whitespace
    THEN rstrip(SubSeq(s, 1, Len(s) - 1))
    ELSE s

strip(s) == lstrip(rstrip(s))

\* s.startswith(p)
startswith(s, p) == Len(s) >= Len(p) /\ SubSeq(s, 1, Len(p)) = p

\* s.endswith(p)
endswith(s, p) == Len(s) >= Len(p) /\ SubSeq(s, Len(s) - Len(p) + 1, Len(s)) = p

\* p in s
Contains(s, p) ==
    \E k \in 1..(Len(s) - Len(p) + 1) : SubSeq(s, k, k + Len(p) - 1) = p

\* The fixed vocabulary of substrings the detection rules test for.
DebugMarker == <<".", "D", "e", "b", "u", "g", "(">>
WithFieldOpener == <<".", "W", "i", "t", "h", "F", "i", "e", "l", "d", "(">>
WithFieldsOpener ==
    <<".", "W", "i", "t", "h", "F", "i", "e", "l", "d", "s", "(",
      "l", "o", "g", ".", "F", "i", "e", "l", "d", "s", "{">>
CommentMarker == <<"/", "/">>
CloseParen == <<")">>
CloseBraceParen == <<"}", ")">>
CloseBrace == <<"}">>
Quote == <<"\"">>

\* '.Debug(' in line
HasDebug(line) == Contains(line, DebugMarker)

\* stripped.startswith('//')
IsComment(line) == startswith(strip(line), CommentMarker)

\* line.rstrip().endswith(')')
EndsParen(line) == endswith(rstrip(line), CloseParen)

\* '.WithFields(log.Fields{' in line or '.WithField(' in line
HasFieldOpener(line) ==
    Contains(line, WithFieldsOpener) \/ Contains(line, WithFieldOpener)

\* lines[j].strip().startswith('})')
StartsCloseBraceParen(line) == startswith(strip(line), CloseBraceParen)

\* lines[j].strip() == '})'
IsCloseBraceParen(line) == strip(line) = CloseBraceParen

\* lines[j].strip().startswith('"')
StartsQuote(line) == startswith(strip(line), Quote)

\* lines[j].strip() == '}'
IsCloseBrace(line) == strip(line) = CloseBrace

\* The condition of the direct rule: a non-comment line with the marker.
DirectStartLine(line) == HasDebug(line) /\ ~IsComment(line)

\* The condition of the chain rule: a non-comment line with a field opener.
ChainStartLine(line) == HasFieldOpener(line) /\ ~IsComment(line)

\* content.split('\n'): never empty, '' splits to [''].
RECURSIVE split(_)
split(text) ==
    IF \E k \in 1..Len(text) : text[k] = "\n"
    THEN LET k == CHOOSE n \in 1..Len(text) :
                    /\ text[n] = "\n"
                    /\ \A m \in 1..(n - 1) : text[m] # "\n"
         IN <<SubSeq(text, 1, k - 1)>>
                \o split(SubSeq(text, k + 1, Len(text)))
    ELSE <<text>>

\* '\n'.join(result)
RECURSIVE join(_)
join(ls) ==
    IF ls = <<>> THEN <<>>
    ELSE IF Len(ls) = 1 THEN ls[1]
    ELSE ls[1] \o <<"\n">> \o join(Tail(ls))

\* ------------------------------------------------------------- the inputs

\* 'a'
L_plain == <<"a">>
\* 'b'
L_b == <<"b">>
\* 'x.Debug(1)'
L_debug == <<"x", ".", "D", "e", "b", "u", "g", "(", "1", ")">>
\* 'x.Debug('
L_debugOpen == <<"x", ".", "D", "e", "b", "u", "g", "(">>
\* ') '
L_close == <<")", " ">>
\* 'x.WithField(k).'
L_field ==
    <<"x", ".", "W", "i", "t", "h", "F", "i", "e", "l", "d", "(", "k", ")", ".">>
\* '  // x.Debug(1)'
L_comment ==
    <<" ", " ", "/", "/", " ", "x", ".", "D", "e", "b", "u", "g", "(", "1", ")">>
\* ' })'
L_braceParen == <<" ", "}", ")">>
\* ' "k",'
L_quote == <<" ", "\"", "k", "\"", ",">>
\* '}'
L_brace == <<"}">>
\* '}).Debug(1)'
L_braceParenDebug == <<"}", ")", ".", "D", "e", "b", "u", "g", "(", "1", ")">>
\* '}).Info(1)'
L_braceParenInfo == <<"}", ")", ".", "I", "n", "f", "o", "(", "1", ")">>

\* '//x.WithField(k).'
L_commentField ==
    <<"/", "/", "x", ".", "W", "i", "t", "h", "F", "i", "e", "l", "d", "(", "k",
      ")", ".">>

\* One line of every shape the rules tell apart.
Vocab ==
    { L_plain, L_debug, L_debugOpen, L_close, L_field, L_comment,
      L_braceParen, L_quote, L_brace, L_braceParenDebug, L_braceParenInfo,
      L_commentField }

\* '}).WithField(k)'
L_braceParenField ==
    <<"}", ")", ".", "W", "i", "t", "h", "F", "i", "e", "l", "d", "(", "k", ")">>
\* ' "k": x.WithField(k),'
L_quoteField ==
    <<" ", "\"", "k", "\"", ":", " ", "x", ".", "W", "i", "t", "h", "F", "i", "e",
      "l", "d", "(", "k", ")", ",">>
\* 'x.WithField(k).Debug(1)'
L_fieldDebug ==
    <<"x", ".", "W", "i", "t", "h", "F", "i", "e", "l", "d", "(", "k", ")", ".",
      "D", "e", "b", "u", "g", "(", "1", ")">>

\* The lines a chain is made of, with a block close and a quoted line that
\* are field-attachment candidates themselves.
ChainVocab ==
    { L_field, L_quote, L_brace, L_debug, L_debugOpen, L_braceParenField,
      L_quoteField }

\* The ways a line can hold the marker (alone, in a comment, after a field
\* opener), with a candidate and a plain line.
MarkerVocab == { L_debug, L_comment, L_fieldDebug, L_field, L_plain }

\* The lines of the worked examples.
\* 'log.Debug("x")'
X_debug ==
    <<"l", "o", "g", ".", "D", "e", "b", "u", "g", "(", "\"", "x", "\"", ")">>
\* 'log.Debug('
X_debugOpen == <<"l", "o", "g", ".", "D", "e", "b", "u", "g", "(">>
\* '  "x",'
X_arg == <<" ", " ", "\"", "x", "\"", ",">>
\* ')'
X_close == <<")">>
\* 'log.WithField("k", v).'
X_field ==
    <<"l", "o", "g", ".", "W", "i", "t", "h", "F", "i", "e", "l", "d", "(",
      "\"", "k", "\"", ",", " ", "v", ")", ".">>
\* '  Debug("msg")'
X_debugCall ==
    <<" ", " ", "D", "e", "b", "u", "g", "(", "\"", "m", "s", "g", "\"", ")">>
\* '  Info("msg")'
X_infoCall ==
    <<" ", " ", "I", "n", "f", "o", "(", "\"", "m", "s", "g", "\"", ")">>
\* '// log.Debug("x")'
X_comment ==
    <<"/", "/", " ", "l", "o", "g", ".", "D", "e", "b", "u", "g", "(",
      "\"", "x", "\"", ")">>
\* 'log.WithFields(log.Fields{'
X_fields ==
    <<"l", "o", "g", ".", "W", "i", "t", "h", "F", "i", "e", "l", "d", "s", "(",
      "l", "o", "g", ".", "F", "i", "e", "l", "d", "s", "{">>
\* '}).Debug("m")'
X_fieldsDebug ==
    <<"}", ")", ".", "D", "e", "b", "u", "g", "(", "\"", "m", "\"", ")">>

ExSingle == <<L_plain, X_debug, L_b>>
ExMulti == <<L_plain, X_debugOpen, X_arg, X_close, L_b>>
ExChainDebug == <<L_plain, X_field, X_debugCall, L_b>>
ExChainInfo == <<L_plain, X_field, X_infoCall, L_b>>
ExComment == <<X_comment>>
ExFields == <<L_plain, X_fields, X_arg, X_fieldsDebug, L_b>>

Examples ==
    { ExSingle, ExMulti, ExChainDebug, ExChainInfo, ExComment, ExFields }

\* Every non-empty sequence of at most MaxLen Vocab lines, every one of
\* ChainVocab lines, every one of MarkerVocab lines, and the examples.
\* (content.split('\n') is any non-empty list of newline-free strings.)
Inputs ==
    (UNION { [1..n -> Vocab] : n \in 1..MaxLen })
        \cup (UNION { [1..n -> ChainVocab] : n \in 1..MaxLen })
        \cup (UNION { [1..n -> MarkerVocab] : n \in 1..MaxLen })
        \cup Examples

\* ------------------------------------ remove_debug_logs as a function

\* The inner while of the direct rule, from cursor k: the cursor it leaves.
RECURSIVE DirectEnd(_, _)
DirectEnd(ls, k) ==
    IF k < Len(ls)
    THEN IF EndsParen(ls[k + 1]) THEN k + 1 ELSE DirectEnd(ls, k + 1)
    ELSE k

\* The while that looks for the end of a multi-line Debug call met by the
\* lookahead from candidate c, from index k: the cursor it leaves (c itself
\* when the input ends first: i is not assigned).
RECURSIVE ChainInnerEnd(_, _, _)
ChainInnerEnd(ls, c, k) ==
    IF k < Len(ls)
    THEN IF EndsParen(ls[k + 1]) THEN k + 1 ELSE ChainInnerEnd(ls, c, k + 1)
    ELSE c

\* The lookahead from candidate c, at index k: has_debug and the cursor.
RECURSIVE Lookahead(_, _, _)
Lookahead(ls, c, k) ==
    IF ~(k < Len(ls))
    THEN [has_debug |-> FALSE, i |-> c]
    ELSE LET l == ls[k + 1] IN
         IF HasDebug(l)
         THEN IF EndsParen(l)
              THEN [has_debug |-> TRUE, i |-> k + 1]
              ELSE [has_debug |-> TRUE, i |-> ChainInnerEnd(ls, c, k + 1)]
         ELSE IF StartsCloseBraceParen(l) /\ ~HasDebug(l)
         THEN [has_debug |-> FALSE, i |-> c]
         ELSE IF IsCloseBraceParen(l)
         THEN Lookahead(ls, c, k + 1)
         ELSE IF StartsQuote(l) /\ ~HasDebug(l)
         THEN Lookahead(ls, c, k + 1)
         ELSE IF ~(StartsQuote(l) \/ IsCloseBrace(l) \/ StartsCloseBraceParen(l))
         THEN [has_debug |-> FALSE, i |-> c]
         ELSE Lookahead(ls, c, k + 1)

\* The main loop from cursor c: the lines it appends, and whether it comes
\* back to its head with the cursor unchanged (and so never returns).
RECURSIVE MainLoop(_, _)
MainLoop(ls, c) ==
    IF ~(c < Len(ls))
    THEN [hangs |-> FALSE, out |-> <<>>]
    ELSE LET l == ls[c + 1] IN
         IF DirectStartLine(l)
         THEN IF EndsParen(l)
              THEN MainLoop(ls, c + 1)
              ELSE MainLoop(ls, DirectEnd(ls, c + 1))
         ELSE IF ChainStartLine(l)
         THEN LET la == Lookahead(ls, c, c + 1) IN
              IF la.has_debug
              THEN IF la.i = c
                   THEN [hangs |-> TRUE, out |-> <<>>]
                   ELSE MainLoop(ls, la.i)
              ELSE LET rest == MainLoop(ls, c + 1) IN
                   [hangs |-> rest.hangs, out |-> <<l>> \o rest.out]
         ELSE LET rest == MainLoop(ls, c + 1) IN
              [hangs |-> rest.hangs, out |-> <<l>> \o rest.out]

\* remove_debug_logs on the lines ls: the lines of the text it returns, when
\* it returns.
Output(ls) == MainLoop(ls, 0)

\* -------------------------------------------------------------- the state

VARIABLES
    lines,          \* remove_debug_logs: the input lines
    result,         \* remove_debug_logs: the output built so far
    i,              \* remove_debug_logs: the cursor
    j,              \* remove_debug_logs: the lookahead index
    has_debug,      \* remove_debug_logs: the lookahead met the marker
    lookahead,      \* remove_debug_logs: the lookahead buffer
    pc,             \* the position in the code
    pass,           \* 1: the first application, 2: the transform on its output
    emitted,        \* history: the input index of every line in result
    i0,             \* history: the cursor at the start of this iteration
    go_files,       \* main: the contents on disk of the files found
    exists,         \* main: base_dir.exists()
    idx,            \* main: the position of the for loop in go_files
    content,        \* process_file: the text read
    modified_count, \* main: the files counted as modified
    returned,       \* the value process_file returned, per file processed
    wrote,          \* the files opened for writing
    errors,         \* the files an error was printed for
    rc              \* main: the exit status, -1 while running

bvars == <<go_files, exists, idx, content, modified_count, returned, wrote,
           errors, rc>>
vars == <<lines, result, i, j, has_debug, lookahead, pc, pass, emitted, i0,
          go_files, exists, idx, content, modified_count, returned, wrote,
          errors, rc>>

\* lines[k] of the code (0-based)
Line(k) == lines[k + 1]

\* len(lines)
N == Len(lines)

\* ------------------------------------------------------ remove_debug_logs

\* The locals of remove_debug_logs on entry, for the lines given.
Enter(ls) ==
    /\ lines = ls
    /\ result = <<>>
    /\ i = 0
    /\ j = 0
    /\ has_debug = FALSE
    /\ lookahead = <<>>
    /\ emitted = <<>>
    /\ i0 = 0

\* The batch driver at rest (the transform called on its own).
NoBatch ==
    /\ go_files = <<>>
    /\ exists = TRUE
    /\ idx = 0
    /\ content = <<>>
    /\ modified_count = 0
    /\ returned = <<>>
    /\ wrote = {}
    /\ errors = {}
    /\ rc = -1

Init ==
    /\ \E ls \in Inputs : Enter(ls)
    /\ pc = "loop"
    /\ pass = 1
    /\ NoBatch

\* while i < len(lines) fails: return '\n'.join(result)
Return ==
    /\ pc = "loop"
    /\ ~(i < N)
    /\ pc' = "done"
    /\ UNCHANGED <<lines, result, i, j, has_debug, lookahead, pass, emitted, i0>>
    /\ UNCHANGED bvars

\* Mutant of DirectSingle: the line is stepped over but kept in the output
\* (the skip forgotten).
DirectSingle_Keeps ==
    /\ pc = "loop"
    /\ i < N
    /\ DirectStartLine(Line(i))
    /\ EndsParen(Line(i))
    /\ result' = Append(result, Line(i))
    /\ emitted' = Append(emitted, i)
    /\ i' = i + 1
    /\ i0' = i
    /\ UNCHANGED <<lines, j, has_debug, lookahead, pc, pass>>
    /\ UNCHANGED bvars

\* A single-line Debug call: skip this line entirely.
DirectSingle ==
    /\ pc = "loop"
    /\ i < N
    /\ DirectStartLine(Line(i))
    /\ EndsParen(Line(i))
    /\ i' = i + 1
    /\ i0' = i
    /\ UNCHANGED <<lines, result, j, has_debug, lookahead, pc, pass, emitted>>
    /\ UNCHANGED bvars

\* A multi-line Debug call: step over its first line and enter the scan.
DirectMultiStart ==
    /\ pc = "loop"
    /\ i < N
    /\ DirectStartLine(Line(i))
    /\ ~EndsParen(Line(i))
    /\ i' = i + 1
    /\ i0' = i
    /\ pc' = "direct_scan"
    /\ UNCHANGED <<lines, result, j, has_debug, lookahead, pass, emitted>>
    /\ UNCHANGED bvars

\* Mutant of DirectScan: the closing line ends the scan without being
\* stepped over (the i += 1 before the break forgotten).
DirectScan_LeavesClose ==
    /\ pc = "direct_scan"
    /\ IF i < N
       THEN IF EndsParen(Line(i))
            THEN i' = i /\ pc' = "loop"
            ELSE i' = i + 1 /\ pc' = "direct_scan"
       ELSE /\ i' = i
            /\ pc' = "loop"
    /\ UNCHANGED <<lines, result, j, has_debug, lookahead, pass, emitted, i0>>
    /\ UNCHANGED bvars

\* Mutant of DirectScan: fail open. When the input ends before a closing
\* line, the lines of the unterminated call are kept instead of dropped.
DirectScan_FailsOpen ==
    /\ pc = "direct_scan"
    /\ IF i < N
       THEN /\ i' = i + 1
            /\ pc' = IF EndsParen(Line(i)) THEN "loop" ELSE "direct_scan"
            /\ UNCHANGED <<result, emitted>>
       ELSE /\ i' = i
            /\ pc' = "loop"
            /\ result' = result \o SubSeq(lines, i0 + 1, N)
            /\ emitted' = emitted \o [k \in 1..(N - i0) |-> i0 + k - 1]
    /\ UNCHANGED <<lines, j, has_debug, lookahead, pass, i0>>
    /\ UNCHANGED bvars

\* One test of the inner while of the direct rule: skip until the closing
\* paren, or until the input ends.
DirectScan ==
    /\ pc = "direct_scan"
    /\ IF i < N
       THEN /\ i' = i + 1
            /\ pc' = IF EndsParen(Line(i)) THEN "loop" ELSE "direct_scan"
       ELSE /\ i' = i
            /\ pc' = "loop"
    /\ UNCHANGED <<lines, result, j, has_debug, lookahead, pass, emitted, i0>>
    /\ UNCHANGED bvars

\* Mutant of ChainStart: the lookahead index is carried over from the
\* previous lookahead instead of being set to the line after the cursor.
ChainStart_KeepsIndex ==
    /\ pc = "loop"
    /\ i < N
    /\ ~DirectStartLine(Line(i))
    /\ ChainStartLine(Line(i))
    /\ lookahead' = <<Line(i)>>
    /\ j' = j
    /\ has_debug' = FALSE
    /\ i0' = i
    /\ pc' = "chain_scan"
    /\ UNCHANGED <<lines, result, i, pass, emitted>>
    /\ UNCHANGED bvars

\* Mutant of ChainStart: the candidate test does not come after the direct
\* rule, so a line with both a field opener and the marker can be taken as
\* a candidate.
ChainStart_BeforeDirect ==
    /\ pc = "loop"
    /\ i < N
    /\ ChainStartLine(Line(i))
    /\ lookahead' = <<Line(i)>>
    /\ j' = i + 1
    /\ has_debug' = FALSE
    /\ i0' = i
    /\ pc' = "chain_scan"
    /\ UNCHANGED <<lines, result, i, pass, emitted>>
    /\ UNCHANGED bvars

\* A field-attachment candidate: start the lookahead.
ChainStart ==
    /\ pc = "loop"
    /\ i < N
    /\ ~DirectStartLine(Line(i))
    /\ ChainStartLine(Line(i))
    /\ lookahead' = <<Line(i)>>
    /\ j' = i + 1
    /\ has_debug' = FALSE
    /\ i0' = i
    /\ pc' = "chain_scan"
    /\ UNCHANGED <<lines, result, i, pass, emitted>>
    /\ UNCHANGED bvars

\* One test of the lookahead's while, and one pass through its body.
ChainScan ==
    /\ pc = "chain_scan"
    /\ IF ~(j < N)
       THEN /\ pc' = "chain_end"
            /\ UNCHANGED <<i, j, has_debug, lookahead>>
       ELSE /\ lookahead' = Append(lookahead, Line(j))
            /\ IF HasDebug(Line(j))
               THEN /\ has_debug' = TRUE
                    /\ IF EndsParen(Line(j))
                       THEN /\ i' = j + 1
                            /\ j' = j
                            /\ pc' = "chain_end"
                       ELSE /\ i' = i
                            /\ j' = j + 1
                            /\ pc' = "chain_inner"
               ELSE /\ has_debug' = has_debug
                    /\ i' = i
                    /\ IF StartsCloseBraceParen(Line(j)) /\ ~HasDebug(Line(j))
                       THEN j' = j /\ pc' = "chain_end"
                       ELSE IF IsCloseBraceParen(Line(j))
                       THEN j' = j + 1 /\ pc' = "chain_scan"
                       ELSE IF StartsQuote(Line(j)) /\ ~HasDebug(Line(j))
                       THEN j' = j + 1 /\ pc' = "chain_scan"
                       ELSE IF ~(\/ StartsQuote(Line(j))
                                 \/ IsCloseBrace(Line(j))
                                 \/ StartsCloseBraceParen(Line(j)))
                       THEN j' = j /\ pc' = "chain_end"
                       ELSE j' = j + 1 /\ pc' = "chain_scan"
    /\ UNCHANGED <<lines, result, pass, emitted, i0>>
    /\ UNCHANGED bvars

\* One test of the while that looks for the end of a multi-line Debug call
\* met by the lookahead; leaving it leaves the lookahead too.
ChainInner ==
    /\ pc = "chain_inner"
    /\ IF j < N
       THEN IF EndsParen(Line(j))
            THEN i' = j + 1 /\ j' = j /\ pc' = "chain_end"
            ELSE i' = i /\ j' = j + 1 /\ pc' = "chain_inner"
       ELSE i' = i /\ j' = j /\ pc' = "chain_end"
    /\ UNCHANGED <<lines, result, has_debug, lookahead, pass, emitted, i0>>
    /\ UNCHANGED bvars

\* if has_debug: skip all these lines (continue).
ChainCommit ==
    /\ pc = "chain_end"
    /\ has_debug
    /\ pc' = "loop"
    /\ UNCHANGED <<lines, result, i, j, has_debug, lookahead, pass, emitted, i0>>
    /\ UNCHANGED bvars

\* Mutant of ChainKeep: the candidate line is stepped over without being
\* appended to the output.
ChainKeep_Drops ==
    /\ pc = "chain_end"
    /\ ~has_debug
    /\ i' = i + 1
    /\ pc' = "loop"
    /\ UNCHANGED <<lines, result, j, has_debug, lookahead, pass, emitted, i0>>
    /\ UNCHANGED bvars

\* Mutant of ChainKeep: the whole lookahead buffer is appended to the output
\* while the cursor still advances by one, so the scanned lines come again.
ChainKeep_EmitsBuffer ==
    /\ pc = "chain_end"
    /\ ~has_debug
    /\ result' = result \o lookahead
    /\ emitted' = emitted \o [k \in 1..Len(lookahead) |-> i + k - 1]
    /\ i' = i + 1
    /\ pc' = "loop"
    /\ UNCHANGED <<lines, j, has_debug, lookahead, pass, i0>>
    /\ UNCHANGED bvars

\* Mutant of ChainKeep: the candidate is kept, but the cursor is moved past
\* every line the lookahead put in its buffer instead of past the candidate.
ChainKeep_SkipsBuffer ==
    /\ pc = "chain_end"
    /\ ~has_debug
    /\ result' = Append(result, Line(i))
    /\ emitted' = Append(emitted, i)
    /\ i' = i + Len(lookahead)
    /\ pc' = "loop"
    /\ UNCHANGED <<lines, j, has_debug, lookahead, pass, i0>>
    /\ UNCHANGED bvars

\* Mutant of ChainKeep: a lookahead that ran to the end of input fails
\* closed, dropping the candidate and everything it scanned.
ChainKeep_FailsClosed ==
    /\ pc = "chain_end"
    /\ ~has_debug
    /\ IF j < N
       THEN /\ result' = Append(result, Line(i))
            /\ emitted' = Append(emitted, i)
            /\ i' = i + 1
       ELSE /\ i' = N
            /\ UNCHANGED <<result, emitted>>
    /\ pc' = "loop"
    /\ UNCHANGED <<lines, j, has_debug, lookahead, pass, i0>>
    /\ UNCHANGED bvars

\* else: keep the original line.
ChainKeep ==
    /\ pc = "chain_end"
    /\ ~has_debug
    /\ result' = Append(result, Line(i))
    /\ emitted' = Append(emitted, i)
    /\ i' = i + 1
    /\ pc' = "loop"
    /\ UNCHANGED <<lines, j, has_debug, lookahead, pass, i0>>
    /\ UNCHANGED bvars

\* Mutant of KeepNormal: a normal line that contains the marker (a comment)
\* is stepped over without being emitted.
KeepNormal_DropsMarkerComment ==
    /\ pc = "loop"
    /\ i < N
    /\ ~DirectStartLine(Line(i))
    /\ ~ChainStartLine(Line(i))
    /\ IF HasDebug(Line(i))
       THEN UNCHANGED <<result, emitted>>
       ELSE /\ result' = Append(result, Line(i))
            /\ emitted' = Append(emitted, i)
    /\ i' = i + 1
    /\ i0' = i
    /\ UNCHANGED <<lines, j, has_debug, lookahead, pc, pass>>
    /\ UNCHANGED bvars

\* A normal line: keep it.
KeepNormal ==
    /\ pc = "loop"
    /\ i < N
    /\ ~DirectStartLine(Line(i))
    /\ ~ChainStartLine(Line(i))
    /\ result' = Append(result, Line(i))
    /\ emitted' = Append(emitted, i)
    /\ i' = i + 1
    /\ i0' = i
    /\ UNCHANGED <<lines, j, has_debug, lookahead, pc, pass>>
    /\ UNCHANGED bvars

\* One step of remove_debug_logs.
remove_debug_logs ==
    \/ Return
    \/ DirectSingle
    \/ DirectMultiStart
    \/ DirectScan
    \/ ChainStart
    \/ ChainScan
    \/ ChainInner
    \/ ChainCommit
    \/ ChainKeep
    \/ KeepNormal

Next == remove_debug_logs

Spec == Init /\ [][Next]_vars

\* The interpreter always takes the next step of the running function.
FairSpec == Spec /\ WF_vars(Next)

\* --------------------------------------- the transform applied to its output

\* remove_debug_logs(remove_debug_logs(content)): the text returned is split
\* again and the locals start afresh.
Restart ==
    /\ pc = "done"
    /\ pass = 1
    /\ lines' = split(join(result))
    /\ result' = <<>>
    /\ i' = 0
    /\ j' = 0
    /\ has_debug' = FALSE
    /\ lookahead' = <<>>
    /\ emitted' = <<>>
    /\ i0' = 0
    /\ pass' = 2
    /\ pc' = "loop"
    /\ UNCHANGED bvars

NextTwice == remove_debug_logs \/ Restart

SpecTwice == Init /\ [][NextTwice]_vars

\* ------------------------------------------------------ process_file, main

\* The texts of the files of the batch.
BatchContents ==
    { join(<<L_plain>>),
      join(<<L_debug>>),
      join(<<L_comment>>),
      join(<<L_field, L_plain, L_debug>>),
      join(<<L_debugOpen, L_quote, L_close, L_b>>),
      join(<<L_field, L_quote, L_braceParenDebug>>),
      join(<<L_field, L_debugOpen>>) }

InitBatch ==
    /\ go_files \in UNION { [1..n -> BatchContents] : n \in 0..MaxFiles }
    /\ exists \in BOOLEAN
    /\ idx = 0
    /\ content = <<>>
    /\ modified_count = 0
    /\ returned = <<>>
    /\ wrote = {}
    /\ errors = {}
    /\ rc = -1
    /\ pc = "main"
    /\ pass = 1
    /\ Enter(<<>>)

\* main up to the for loop: no base_dir returns 1, no Go files returns 0.
MainStart ==
    /\ pc = "main"
    /\ IF ~exists
       THEN rc' = 1 /\ pc' = "exit"
       ELSE IF go_files = <<>>
       THEN rc' = 0 /\ pc' = "exit"
       ELSE rc' = rc /\ pc' = "for"
    /\ modified_count' = 0
    /\ UNCHANGED <<lines, result, i, j, has_debug, lookahead, pass, emitted, i0>>
    /\ UNCHANGED <<go_files, exists, idx, content, returned, wrote, errors>>

\* for go_file in go_files: the next file, or the summary and return 0.
ForNext ==
    /\ pc = "for"
    /\ IF idx < Len(go_files)
       THEN rc' = rc /\ pc' = "pf_read"
       ELSE rc' = 0 /\ pc' = "exit"
    /\ UNCHANGED <<lines, result, i, j, has_debug, lookahead, pass, emitted, i0>>
    /\ UNCHANGED <<go_files, exists, idx, content, modified_count, returned,
                   wrote, errors>>

\* process_file: open and read the file; a failure is caught, printed and
\* answered with False.
PfRead ==
    /\ pc = "pf_read"
    /\ \E ok \in BOOLEAN :
          IF ok
          THEN /\ content' = go_files[idx + 1]
               /\ pc' = "pf_check"
               /\ UNCHANGED <<returned, errors>>
          ELSE /\ errors' = errors \cup {idx}
               /\ returned' = Append(returned, FALSE)
               /\ pc' = "pf_ret"
               /\ UNCHANGED content
    /\ UNCHANGED <<lines, result, i, j, has_debug, lookahead, pass, emitted, i0>>
    /\ UNCHANGED <<go_files, exists, idx, modified_count, wrote, rc>>

\* process_file: without the marker in the text return False, else call
\* remove_debug_logs(content).
PfCheck ==
    /\ pc = "pf_check"
    /\ IF ~Contains(content, DebugMarker)
       THEN /\ returned' = Append(returned, FALSE)
            /\ pc' = "pf_ret"
            /\ UNCHANGED <<lines, result, i, j, has_debug, lookahead, emitted, i0>>
       ELSE /\ lines' = split(content)
            /\ result' = <<>>
            /\ i' = 0
            /\ j' = 0
            /\ has_debug' = FALSE
            /\ lookahead' = <<>>
            /\ emitted' = <<>>
            /\ i0' = 0
            /\ pc' = "loop"
            /\ UNCHANGED returned
    /\ UNCHANGED <<pass, go_files, exists, idx, content, modified_count, wrote,
                   errors, rc>>

\* process_file: write new_content back and return True. open(.., 'w') may
\* fail (the file is left as it was), or the write may fail after the open
\* has truncated the file; both are caught, printed and answered with False.
PfWrite ==
    /\ pc = "done"
    /\ \E outcome \in {"written", "open_fails", "write_fails"} :
          IF outcome = "written"
          THEN /\ go_files' = [go_files EXCEPT ![idx + 1] = join(result)]
               /\ wrote' = wrote \cup {idx}
               /\ returned' = Append(returned, TRUE)
               /\ UNCHANGED errors
          ELSE IF outcome = "open_fails"
          THEN /\ errors' = errors \cup {idx}
               /\ returned' = Append(returned, FALSE)
               /\ UNCHANGED <<go_files, wrote>>
          ELSE /\ go_files' = [go_files EXCEPT ![idx + 1] = <<>>]
               /\ wrote' = wrote \cup {idx}
               /\ errors' = errors \cup {idx}
               /\ returned' = Append(returned, FALSE)
    /\ pc' = "pf_ret"
    /\ UNCHANGED <<lines, result, i, j, has_debug, lookahead, pass, emitted, i0>>
    /\ UNCHANGED <<exists, idx, content, modified_count, rc>>

\* Mutant of MainCount: every file processed is counted, whatever
\* process_file returned.
MainCount_CountsAll ==
    /\ pc = "pf_ret"
    /\ modified_count' = modified_count + 1
    /\ idx' = idx + 1
    /\ pc' = "for"
    /\ UNCHANGED <<lines, result, i, j, has_debug, lookahead, pass, emitted, i0>>
    /\ UNCHANGED <<go_files, exists, content, returned, wrote, errors, rc>>

\* main: if process_file(go_file): modified_count += 1; then the next file.
MainCount ==
    /\ pc = "pf_ret"
    /\ modified_count' =
          IF returned[Len(returned)] THEN modified_count + 1 ELSE modified_count
    /\ idx' = idx + 1
    /\ pc' = "for"
    /\ UNCHANGED <<lines, result, i, j, has_debug, lookahead, pass, emitted, i0>>
    /\ UNCHANGED <<go_files, exists, content, returned, wrote, errors, rc>>

process_file == PfRead \/ PfCheck \/ PfWrite

main == MainStart \/ ForNext \/ MainCount

NextBatch == main \/ process_file \/ remove_debug_logs

SpecBatch == InitBatch /\ [][NextBatch]_vars

\* ------------------------------------------------------------- properties

\* The input indices emitted so far.
Emitted == { emitted[k] : k \in 1..Len(emitted) }

\* The transform is running or has returned (not the batch driver's own code).
InTransform ==
    pc \in {"loop", "direct_scan", "chain_scan", "chain_inner", "chain_end", "done"}

\* C1: on every finite input remove_debug_logs terminates: the main loop
\* eventually finds the cursor at the number of input lines and returns.
C1_Terminates == <>(pc = "done")

\* C2: applying the transform to its own output yields that output again:
\* the second application returns the lines it was given.
C2_Idempotent == (pass = 2 /\ pc = "done") => result = lines

\* C3: an input in which no line contains '.Debug(' is returned exactly as
\* it was given.
C3_NoMarkerIdentity ==
    (pc = "done" /\ \A k \in 0..(N - 1) : ~HasDebug(Line(k))) => result = lines

\* C3 witness: a marker-free input with a field-attachment candidate whose
\* lookahead ran over at least two lines has been returned unchanged.
C3_Witness ==
    /\ pc = "done"
    /\ \A k \in 0..(N - 1) : ~HasDebug(Line(k))
    /\ \E k \in 0..(N - 1) : ChainStartLine(Line(k))
    /\ \E k \in 0..(N - 1) : StartsQuote(Line(k))
    /\ Len(lookahead) >= 3
    /\ result = lines

\* C4: the output is a subsequence of the input: every output line is the
\* input line at an index of its own, the indices strictly increase, and
\* all of them lie behind the cursor.
C4_Subsequence ==
    InTransform =>
        /\ Len(result) = Len(emitted)
        /\ \A k \in 1..Len(emitted) :
              /\ emitted[k] \in 0..(N - 1)
              /\ emitted[k] < i
              /\ result[k] = Line(emitted[k])
        /\ \A k \in 1..(Len(emitted) - 1) : emitted[k] < emitted[k + 1]

\* C4 witness: a lookahead scanned two lines without meeting the marker, and
\* the lines it scanned were then processed again and emitted, while another
\* line of the input was dropped.
C4_Witness ==
    /\ pc = "done"
    /\ ~has_debug
    /\ Len(lookahead) >= 3
    /\ \E c \in Emitted : ChainStartLine(Line(c)) /\ {c + 1, c + 2} \subseteq Emitted
    /\ Len(result) < N

\* C5: the chain example: the field-attachment line and the Debug line on
\* the next line are both dropped.
C5_ChainExample ==
    (pc = "done" /\ lines = ExChainDebug) => result = <<L_plain, L_b>>

\* C6: every comment line of the input is in the output.
C6_CommentsKept ==
    pc = "done" => \A k \in 0..(N - 1) : IsComment(Line(k)) => k \in Emitted

\* C7: process_file neither writes nor returns True for a file whose
\* transformed text equals the text read.
C7_UnchangedUntouched ==
    [][(pc = "done" /\ join(result) = content)
          => (wrote' = wrote /\ returned' = Append(returned, FALSE))]_vars

\* The files process_file has answered True for.
Counted == { k \in 0..(Len(returned) - 1) : returned[k + 1] }

\* C8: a read or write failure is reported and answered with False, the
\* failing file is not counted, and the for loop goes on to the next file.
C8_FailureIsolated ==
    /\ [](\A k \in errors : k < Len(returned) /\ ~returned[k + 1])
    /\ [](pc \in {"for", "exit"} /\ exists /\ go_files # <<>>
             => modified_count = Cardinality(Counted))
    /\ [][(pc = "pf_ret" /\ idx \in errors)
             => (pc' = "for" /\ idx' = idx + 1
                   /\ modified_count' = modified_count)]_vars
    /\ [][(pc = "for" /\ idx < Len(go_files)) => pc' = "pf_read"]_vars

\* C8 witness: the batch ended, a file failed, and a later file was
\* processed and counted.
C8_Witness ==
    /\ pc = "exit"
    /\ \E k \in errors : \E m \in Counted : k < m
    /\ modified_count >= 1
    /\ Len(returned) = Len(go_files)

\* The lines ls without the line at index k (0-based).
Without(ls, k) == SubSeq(ls, 1, k) \o SubSeq(ls, k + 2, Len(ls))

\* The step-by-step run and the function agree: a run that returned did so
\* with the function's output, and the function hangs on no such input.
StepsAgreeWithOutput ==
    pc = "done" => Output(lines) = [hangs |-> FALSE, out |-> result]

\* C9: at a non-comment line with the marker that ends with ')', the step
\* drops exactly that line: the cursor advances by 1 and nothing is
\* emitted; the single-line example gives ['a', 'b']; and the whole run
\* gives what it gives on the input without that line.
C9_DirectSingle ==
    /\ [][(pc = "loop" /\ i < N /\ DirectStartLine(Line(i)) /\ EndsParen(Line(i)))
             => (i' = i + 1 /\ pc' = "loop" /\ result' = result
                   /\ emitted' = emitted)]_vars
    /\ []((pc = "done" /\ lines = ExSingle) => result = <<L_plain, L_b>>)
    /\ []((pc = "loop" /\ i < N /\ DirectStartLine(Line(i)) /\ EndsParen(Line(i)))
             => Output(lines) = Output(Without(lines, i)))

\* C9 witness: the single-line example has been returned without its Debug
\* line.
C9_Witness ==
    /\ pc = "done"
    /\ lines = ExSingle
    /\ result = <<L_plain, L_b>>
    /\ emitted = <<0, 2>>

\* The index of the first line after s that ends with ')', or N if none.
FirstClose(s) ==
    IF \E k \in (s + 1)..(N - 1) : EndsParen(Line(k))
    THEN CHOOSE k \in (s + 1)..(N - 1) :
            /\ EndsParen(Line(k))
            /\ \A m \in (s + 1)..(k - 1) : ~EndsParen(Line(m))
    ELSE N

\* C10: at a non-comment line with the marker that does not end with ')',
\* the scan is entered; while it runs the cursor has passed only lines that
\* do not end with ')' and none of the span is emitted; it leaves, when a
\* closing line exists, with the cursor right after the first later line
\* that ends with ')'; and the multi-line example gives ['a', 'b'].
C10_DirectMulti ==
    /\ [][(pc = "loop" /\ i < N /\ DirectStartLine(Line(i)) /\ ~EndsParen(Line(i)))
             => (pc' = "direct_scan" /\ i' = i + 1 /\ i0' = i
                   /\ result' = result)]_vars
    /\ [](pc = "direct_scan"
             => /\ DirectStartLine(Line(i0)) /\ ~EndsParen(Line(i0))
                /\ i0 < i /\ i <= FirstClose(i0)
                /\ \A k \in Emitted : k < i0)
    /\ [][(pc = "direct_scan" /\ FirstClose(i0) < N /\ pc' = "loop")
             => (i' = FirstClose(i0) + 1 /\ result' = result
                   /\ \A k \in i0..(i' - 1) : k \notin Emitted')]_vars
    /\ [][(pc = "direct_scan" /\ i < FirstClose(i0)) => pc' = "direct_scan"]_vars
    /\ []((pc = "done" /\ lines = ExMulti) => result = <<L_plain, L_b>>)

\* C10 witness: a multi-line Debug call of at least three lines was dropped
\* up to its closing line and the line after it was kept.
C10_Witness ==
    /\ pc = "done"
    /\ \E s \in 0..(N - 1) :
          /\ DirectStartLine(Line(s)) /\ ~EndsParen(Line(s))
          /\ FirstClose(s) = s + 2
          /\ s + 3 \in Emitted
          /\ \A k \in s..(s + 2) : k \notin Emitted
          /\ \A k \in 0..(s - 1) : k \in Emitted

\* The line at s starts a direct multi-line Debug call that no later line
\* closes.
UnclosedDirectAt(s) ==
    /\ s < N
    /\ DirectStartLine(Line(s))
    /\ ~EndsParen(Line(s))
    /\ FirstClose(s) = N

\* C11: drop to end. When the direct rule starts at a line s that does not
\* end with ')' and no later line does, nothing from s on is emitted, the
\* run returns, and it returns what the lines before s produce on their own.
C11_DropToEnd ==
    /\ (pc = "direct_scan" /\ UnclosedDirectAt(i0))
          => /\ \A k \in Emitted : k < i0
             /\ ~Output(lines).hangs
             /\ Output(lines).out = result
    /\ (pc \in {"loop", "done"} /\ i = N /\ UnclosedDirectAt(i0))
          => /\ \A k \in Emitted : k < i0
             /\ Output(SubSeq(lines, 1, i0)) = [hangs |-> FALSE, out |-> result]
    /\ (pc = "loop" /\ i < N /\ UnclosedDirectAt(i))
          => Output(lines) = Output(SubSeq(lines, 1, i))

\* C11 witness: an unterminated multi-line Debug call after two kept lines
\* and before another line was dropped to the end, and the run returned.
C11_Witness ==
    /\ pc = "done"
    /\ UnclosedDirectAt(i0)
    /\ i0 = 2
    /\ N = 4
    /\ result = SubSeq(lines, 1, 2)

\* While a lookahead that met the marker is being ended, the index of the
\* line it met it on: the last line put in the buffer.
MarkerLine == i0 + Len(lookahead) - 1

\* The last line of the statement whose marker is on line m, as the direct
\* rule finds it: m itself if it ends with ')', else the first later line
\* that does, else the last line of the input.
StatementEnd(m) ==
    IF EndsParen(Line(m)) THEN m
    ELSE IF FirstClose(m) < N THEN FirstClose(m)
    ELSE N - 1

\* C12: chain commit. When the lookahead from the candidate at i0 has met
\* a line with the marker, the cursor is set just past the end of that
\* statement, and no line from the candidate on has been emitted.
C12_ChainCommit ==
    (pc = "chain_end" /\ has_debug)
        => /\ HasDebug(Line(MarkerLine))
           /\ i = StatementEnd(MarkerLine) + 1
           /\ \A k \in Emitted : k < i0

\* C13: lookahead continuation. A scanned line without the marker that is
\* purely '})', or whose trimmed form starts with a quote, does not end the
\* lookahead: the scan goes on to the next line.
C13_Continuation ==
    [][(/\ pc = "chain_scan"
        /\ j < N
        /\ ~HasDebug(Line(j))
        /\ (IsCloseBraceParen(Line(j)) \/ StartsQuote(Line(j))))
          => (pc' = "chain_scan" /\ j' = j + 1 /\ i' = i)]_vars

\* A line the lookahead steps over: no marker, and a quote-started line or
\* a bare '}' (a line starting with '})' has ended the lookahead before).
Continues(l) == ~HasDebug(l) /\ (StartsQuote(l) \/ IsCloseBrace(l))

\* The index at which the lookahead from the candidate at c stops: the
\* first later line it does not step over, or N.
ScanStop(c) ==
    IF \E k \in (c + 1)..(N - 1) : ~Continues(Line(k))
    THEN CHOOSE k \in (c + 1)..(N - 1) :
            /\ ~Continues(Line(k))
            /\ \A m \in (c + 1)..(k - 1) : Continues(Line(m))
    ELSE N

\* The lookahead from c stops at a block close: a line without the marker
\* whose trimmed form starts with '})'.
BlockCloseAt(c) ==
    /\ ScanStop(c) < N
    /\ ~HasDebug(Line(ScanStop(c)))
    /\ StartsCloseBraceParen(Line(ScanStop(c)))

\* A candidate that was kept: its lookahead ended as a non-match.
KeptCandidate(c) == ChainStartLine(Line(c)) /\ c \in Emitted

\* C14: after a lookahead that stopped at a block close without the marker,
\* the candidate and every line scanned up to and including the closing
\* line are in the output.
C14_BlockCloseKeepsAll ==
    pc = "done" =>
        \A c \in 0..(N - 1) :
            (KeptCandidate(c) /\ BlockCloseAt(c))
                => \A k \in c..ScanStop(c) : k \in Emitted

\* C15: a scanned line without the marker that is not a '})' line and does
\* not start with a quote, a bare '}' included, ends the lookahead as a
\* non-match.
C15_OtherShapeEnds ==
    [][(/\ pc = "chain_scan"
        /\ j < N
        /\ ~HasDebug(Line(j))
        /\ ~StartsCloseBraceParen(Line(j))
        /\ ~StartsQuote(Line(j)))
          => (pc' = "chain_end" /\ ~has_debug')]_vars

\* The scanned line at k has none of the shapes the lookahead knows: no
\* marker, no leading '})', no leading quote, and it is not a bare '}'.
OtherShape(k) ==
    /\ ~HasDebug(Line(k))
    /\ ~StartsCloseBraceParen(Line(k))
    /\ ~StartsQuote(Line(k))
    /\ ~IsCloseBrace(Line(k))

\* The lookahead from c stops at a line of another shape.
OtherShapeAt(c) == ScanStop(c) < N /\ OtherShape(ScanStop(c))

\* C15 amended: a scanned line of another shape (a bare '}' excluded) ends
\* the lookahead as a non-match, while a bare '}' is stepped over; a
\* non-match lookahead stops where ScanStop says; after it only the
\* candidate is emitted and the cursor advances by one; and the output is
\* what was emitted so far, the candidate, and what the normal rules make
\* of the lines from right after the candidate.
C15_OtherShape ==
    /\ [][(pc = "chain_scan" /\ j < N /\ OtherShape(j))
             => (pc' = "chain_end" /\ ~has_debug' /\ j' = j /\ i' = i)]_vars
    /\ [][(pc = "chain_scan" /\ j < N /\ IsCloseBrace(Line(j)))
             => (pc' = "chain_scan" /\ j' = j + 1 /\ i' = i)]_vars
    /\ []((pc = "chain_end" /\ ~has_debug) => (i = i0 /\ j = ScanStop(i)))
    /\ [][(pc = "chain_end" /\ ~has_debug /\ OtherShapeAt(i))
             => (/\ pc' = "loop"
                 /\ i' = i + 1
                 /\ result' = Append(result, Line(i)))]_vars
    /\ []((pc = "chain_end" /\ ~has_debug /\ OtherShapeAt(i))
             => Output(lines) =
                   [hangs |-> MainLoop(lines, i + 1).hangs,
                    out |-> result \o <<Line(i)>>
                                \o MainLoop(lines, i + 1).out])

\* C15 witness: a lookahead stepped over a bare '}' and stopped at a line
\* of another shape, and the candidate alone was emitted.
C15_Witness ==
    /\ pc = "loop"
    /\ i = i0 + 1
    /\ ChainStartLine(Line(i0))
    /\ OtherShapeAt(i0)
    /\ ScanStop(i0) = i0 + 2
    /\ IsCloseBrace(Line(i0 + 1))
    /\ result # <<>>
    /\ result[Len(result)] = Line(i0)

\* The cursor came to line c at the head of the main loop: c is the first
\* line, or the line before it was emitted (every emission steps the
\* cursor by one).
CursorCameTo(c) == c = 0 \/ (c - 1) \in Emitted

\* The lookahead from the candidate at c runs to the end of input: every
\* later line is one it steps over.
RunsToEnd(c) == ChainStartLine(Line(c)) /\ ScanStop(c) = N

\* C16: a lookahead that reaches the end of input without the marker or a
\* terminating line removes nothing: when it ends there, the scan was over
\* lines it steps over only, the transform returns, and it returns what
\* was emitted so far followed by the candidate and every scanned line;
\* and in the returned output the candidate and every line after it are
\* present.
C16_FailOpen ==
    /\ (pc = "chain_end" /\ ~has_debug /\ ~(j < N))
          => /\ i = i0
             /\ RunsToEnd(i)
             /\ lookahead = SubSeq(lines, i + 1, N)
             /\ Output(lines) =
                   [hangs |-> FALSE, out |-> result \o SubSeq(lines, i + 1, N)]
    /\ pc = "done"
          => \A c \in 0..(N - 1) :
                (CursorCameTo(c) /\ ~DirectStartLine(Line(c)) /\ RunsToEnd(c))
                    => /\ \A k \in c..(N - 1) : k \in Emitted
                       /\ SubSeq(result, Len(result) - (N - c) + 1, Len(result))
                             = SubSeq(lines, c + 1, N)

\* C16 witness: the transform returned after a lookahead that scanned two
\* lines and ran off the end of input, with every line of the input kept.
C16_Witness ==
    /\ pc = "done"
    /\ N >= 3
    /\ i0 = N - 1
    /\ \E c \in 0..(N - 3) :
          /\ CursorCameTo(c)
          /\ ~DirectStartLine(Line(c))
          /\ RunsToEnd(c)
    /\ result = lines

\* C17: the cursor stays within 0..N and no step decreases it; the
\* lookahead index is only ever set to a line past the cursor, and while a
\* lookahead runs it is past the cursor and at most N; and at the head of
\* the main loop, once a lookahead has run and left its buffer, index and
\* flag behind (before that there is nothing else to carry), the rest of
\* the run is a function of the input and the cursor alone, whose output is
\* appended to the output built so far.
C17_CursorInvariant ==
    /\ [](0 <= i /\ i <= N)
    /\ [][i' >= i]_vars
    /\ [][j' # j => j' > i']_vars
    /\ [](pc \in {"chain_scan", "chain_inner"} => (i < j /\ j <= N))
    /\ []((pc = "loop" /\ lookahead # <<>>) =>
            LET rest == MainLoop(lines, i)
                whole == Output(lines)
            IN  /\ whole.hangs = rest.hangs
                /\ ~rest.hangs => whole.out = result \o rest.out)

\* C17 witness: back at the head of the main loop after a second or later
\* iteration whose lookahead moved the cursor three lines or more ahead,
\* with lines still to go.
C17_Witness ==
    /\ pc = "loop"
    /\ i0 >= 1
    /\ ChainStartLine(Line(i0))
    /\ ~DirectStartLine(Line(i0))
    /\ i >= i0 + 3
    /\ j = i - 1
    /\ i < N

\* The input lines that are not in the output.
Dropped == (0..(N - 1)) \ Emitted

\* a..b is a maximal contiguous range of dropped lines.
MaximalDropped(a, b) ==
    /\ a <= b
    /\ \A k \in a..b : k \in Dropped
    /\ a = 0 \/ (a - 1) \notin Dropped
    /\ b = N - 1 \/ (b + 1) \notin Dropped

\* C18: in every returned output, each maximal contiguous range of dropped
\* lines starts at a non-comment line with the marker or a field opener and
\* contains a line with the marker; and the output is exactly the lines
\* outside those ranges, in order.
C18_OnlyDebugRemoved ==
    pc = "done" =>
        /\ \A a \in 0..(N - 1) : \A b \in a..(N - 1) :
              MaximalDropped(a, b)
                  => /\ ~IsComment(Line(a))
                     /\ HasDebug(Line(a)) \/ HasFieldOpener(Line(a))
                     /\ \E k \in a..b : HasDebug(Line(k))
        /\ Len(result) = N - Cardinality(Dropped)
        /\ \A k \in 1..Len(result) :
              /\ emitted[k] \notin Dropped
              /\ result[k] = Line(emitted[k])

\* C18 witness: the transform returned with two separate dropped ranges, one
\* of them two lines or longer, and a kept comment that contains the marker.
C18_Witness ==
    /\ pc = "done"
    /\ \E k \in Emitted : IsComment(Line(k)) /\ HasDebug(Line(k))
    /\ \E a \in 0..(N - 1) : \E b \in (a + 1)..(N - 1) : MaximalDropped(a, b)
    /\ Cardinality({ a \in 0..(N - 1) :
                       \E b \in a..(N - 1) : MaximalDropped(a, b) }) >= 2

\* C19: no line of the output is a non-comment line with the marker: every
\* output line that contains '.Debug(' has a trimmed form starting with
\* '//'.
C19_NoDebugRetained ==
    InTransform =>
        \A k \in 1..Len(result) : HasDebug(result[k]) => IsComment(result[k])

\* C19 witness: the transform returned an output that holds a comment with
\* the marker and a kept candidate, after dropping a line that has both a
\* field opener and the marker.
C19_Witness ==
    /\ pc = "done"
    /\ \E k \in 1..Len(result) : HasDebug(result[k]) /\ IsComment(result[k])
    /\ \E c \in Emitted : ChainStartLine(Line(c))
    /\ \E d \in Dropped : HasDebug(Line(d)) /\ HasFieldOpener(Line(d))

====
